---- MODULE Spec2Model ----
(***************************************************************************)
(* Model of resumebot.py, a Streamlit script.  Streamlit executes the      *)
(* script top to bottom once per user interaction (a "script run"); the    *)
(* only state that survives a run is st.session_state.  Each action below  *)
(* is one script run: the sidebar block (lines 97-129) followed by the     *)
(* main body (lines 132-190), cut short where the code raises or calls     *)
(* st.rerun().  Text is modelled as a sequence of one-character strings so *)
(* that strip(), split() and the regular expressions are computed.         *)
(***************************************************************************)
EXTENDS Integers, Sequences, FiniteSets, TLC

\* ---------------------------------------------------------------- bounds
\* Cap on evalCalls, the history counter of evaluate_answers calls.
MaxEvalCalls == 3

\* ------------------------------------------------------- text primitives
\* Python's str.strip() / regex \s whitespace, restricted to the alphabet used.
Whitespace == {" ", "\n", "\t"}

\* regex \d
Digits == {"0", "1", "2", "3", "4", "5", "6", "7", "8", "9"}

\* The bullet character U+2022, written as a token because the module is ASCII.
Bullet == "U+2022"

\* The character class [\-\<bullet>\d\.\)\s] of clean_questions.
PrefixChars == {"-", Bullet, ".", ")"} \cup Digits \cup Whitespace

\* Decimal value of one digit character (part of int()).
DigitVal(c) ==
    CASE c = "0" -> 0 [] c = "1" -> 1 [] c = "2" -> 2 [] c = "3" -> 3
      [] c = "4" -> 4 [] c = "5" -> 5 [] c = "6" -> 6 [] c = "7" -> 7
      [] c = "8" -> 8 [] c = "9" -> 9

Min(a, b) == IF a < b THEN a ELSE b

\* s[i:] with i counted from 1.
Drop(s, i) == SubSeq(s, i, Len(s))

\* Index of the first character at or after i that is not in cls; Len(s)+1 if none.
RECURSIVE SkipWhile(_, _, _)
SkipWhile(s, i, cls) ==
    IF i <= Len(s) /\ s[i] \in cls THEN SkipWhile(s, i + 1, cls) ELSE i

\* Index of the last character at or before i that is not in cls; 0 if none.
RECURSIVE SkipBack(_, _, _)
SkipBack(s, i, cls) ==
    IF i >= 1 /\ s[i] \in cls THEN SkipBack(s, i - 1, cls) ELSE i

\* str.strip(): remove leading and trailing whitespace.
strip(s) == SubSeq(s, SkipWhile(s, 1, Whitespace), SkipBack(s, Len(s), Whitespace))

\* re.sub(r"^[\-\<bullet>\d\.\)\s]+", "", q): remove the leading run of prefix characters.
StripPrefix(q) == Drop(q, SkipWhile(q, 1, PrefixChars))

\* The characters of s other than the newline: what the regex "." matches.
NotNewline(s) == {c \in {s[k] : k \in 1..Len(s)} : c # "\n"}

\* str.split("\n"): the pieces between newlines (always at least one piece);
\* SplitAt is given the index nl of the first newline, Len(s) + 1 if there is none.
RECURSIVE split(_)
SplitAt(s, nl) ==
    IF nl > Len(s) THEN <<s>>
    ELSE <<SubSeq(s, 1, nl - 1)>> \o split(Drop(s, nl + 1))

split(s) == SplitAt(s, SkipWhile(s, 1, NotNewline(s)))

\* int() of a non-empty run of digits.
RECURSIVE int(_)
int(ds) ==
    IF Len(ds) = 0 THEN 0
    ELSE 10 * int(SubSeq(ds, 1, Len(ds) - 1)) + DigitVal(ds[Len(ds)])

\* Does the literal lit occur in s starting at index i?
MatchesAt(s, i, lit) ==
    /\ i + Len(lit) - 1 <= Len(s)
    /\ SubSeq(s, i, i + Len(lit) - 1) = lit

\* ------------------------------------------------------- clean_questions
\* Variant of KeepIfLong: a line is kept from five characters on.
KeepIfLong_FromFive(q) == IF Len(q) >= 5 THEN <<strip(q)>> ELSE <<>>

\* Lines 44-45 for q as line 43 left it.
KeepIfLong(q) == IF Len(q) > 5 THEN <<strip(q)>> ELSE <<>>

RECURSIVE clean_questions(_)
clean_questions(raw_qs) ==
    IF raw_qs = <<>> THEN <<>>
    ELSE KeepIfLong(StripPrefix(strip(Head(raw_qs)))) \o clean_questions(Tail(raw_qs))

\* ----------------------------------------------------- generate_questions
\* (role_qs + resume_qs)[:10]
MaxQuestions == 10

\* Variant of generate_questions: the resume questions come first.
generate_questions_ResumeFirst(role_response, resume_response) ==
    LET role_qs == clean_questions(split(role_response))
        resume_qs == clean_questions(split(resume_response))
        all_qs == resume_qs \o role_qs
    IN  SubSeq(all_qs, 1, Min(Len(all_qs), MaxQuestions))

\* The two model calls return role_response and resume_response; the prompts
\* (lines 52-53) only reach the external model and are not part of the state.
generate_questions(role_response, resume_response) ==
    LET role_qs == clean_questions(split(role_response))
        resume_qs == clean_questions(split(resume_response))
        all_qs == role_qs \o resume_qs
    IN  SubSeq(all_qs, 1, Min(Len(all_qs), MaxQuestions))

\* ------------------------------------------------------- evaluate_answers
\* The literal "Feedback:" of the pattern on line 76.
FeedbackMarker ==
    <<"F", "e", "e", "d", "b", "a", "c", "k", ":">>

\* The literal "Score:" of the pattern on line 77.
ScoreMarker ==
    <<"S", "c", "o", "r", "e", ":">>

\* The placeholder of line 79.
NoFeedback ==
    <<"N", "o", " ", "f", "e", "e", "d", "b", "a", "c", "k", " ", "p", "r", "o", "v", "i",
      "d", "e", "d", ".">>

\* Smallest element of a non-empty set of integers.
Least(I) == CHOOSE i \in I : \A j \in I : i <= j

\* A regex match: found = FALSE stands for None, group is group(1).
NoMatch == [found |-> FALSE, group |-> <<>>]

\* The match whose group(1) is response[from .. upto - 1].
Match(response, from, upto) ==
    [found |-> TRUE, group |-> SubSeq(response, from, upto - 1)]

\* \s*(.*) from index i: \s* consumes all whitespace (newlines included) and
\* (.*) takes the rest of the line reached.
RestOfLine(response, from) ==
    Match(response, from, SkipWhile(response, from, NotNewline(response)))

\* (\d+) from index from: the maximal run of digits.
DigitRun(response, from) ==
    Match(response, from, SkipWhile(response, from, Digits))

\* Indices at which the literal occurs in response.
Occurrences(response, lit) ==
    {i \in 1..Len(response) : MatchesAt(response, i, lit)}

\* Is there a digit at index d of response?
DigitAt(response, d) == d <= Len(response) /\ response[d] \in Digits

\* Indices at which "Score:" occurs followed, after optional whitespace, by a digit.
ScoreOccurrences(response) ==
    {i \in Occurrences(response, ScoreMarker) :
        DigitAt(response, SkipWhile(response, i + Len(ScoreMarker), Whitespace))}

\* re.search(r"Feedback:\s*(.*)", response), given the occurrences I of the literal:
\* the leftmost one is taken.
SearchFeedbackIn(response, I) ==
    IF I = {} THEN NoMatch
    ELSE RestOfLine(response,
                    SkipWhile(response, Least(I) + Len(FeedbackMarker), Whitespace))

SearchFeedback(response) ==
    SearchFeedbackIn(response, Occurrences(response, FeedbackMarker))

\* re.search(r"Score:\s*(\d+)", response), given the occurrences I at which the
\* whole pattern matches: the leftmost one is taken.
SearchScoreIn(response, I) ==
    IF I = {} THEN NoMatch
    ELSE DigitRun(response,
                  SkipWhile(response, Least(I) + Len(ScoreMarker), Whitespace))

SearchScore(response) == SearchScoreIn(response, ScoreOccurrences(response))

\* Line 79: fb = feedback.group(1).strip() if feedback else "No feedback provided."
FeedbackOf(feedback) == IF feedback.found THEN strip(feedback.group) ELSE NoFeedback

\* Line 80: sc = int(score.group(1)) if score else 0
ScoreOf(score) == IF score.found THEN int(score.group) ELSE 0

\* Lines 76-80 for one response.
ParseFeedback(response) == FeedbackOf(SearchFeedback(response))

ParseScore(response) == ScoreOf(SearchScore(response))

\* Number of (q, a) pairs zip(questions, answers) yields.
ZipLen(questions, answers) == Min(Len(questions), Len(answers))

\* Variant of EvaluatePairs: a score is appended only for a response in which
\* the score pattern matched.
EvaluatePairs_SkipUnscored(n, responses) ==
    [feedback_list |-> [k \in 1..n |-> ParseFeedback(responses[k])],
     score_list    |-> [k \in 1..Cardinality({j \in 1..n : SearchScore(responses[j]).found})
                          |-> 0]]

\* The lists evaluate_answers returns for n pairs when no model call raises:
\* responses[k] is the text the model returns for pair k.
EvaluatePairs(n, responses) ==
    [feedback_list |-> [k \in 1..n |-> ParseFeedback(responses[k])],
     score_list    |-> [k \in 1..n |-> ParseScore(responses[k])]]

evaluate_answers(questions, answers, responses) ==
    EvaluatePairs(ZipLen(questions, answers), responses)

\* ---------------------------------------------------------- session state
\* Keys of lines 30 and 188.
Keys == {"question_index", "questions", "user_answers", "feedback", "scores",
         "user_details", "ready"}

\* The empty dict {}.
EmptyDict == [k \in {} |-> ""]

\* The value expression of lines 32 and 189.  Python gives question_index the
\* value False as well; bool is an int subtype with False == 0, and the script
\* only uses it as a number, so it is written 0 here.
DefaultValue(key) ==
    IF key \in {"questions", "user_answers", "feedback", "scores"} THEN <<>>
    ELSE IF key = "user_details" THEN EmptyDict
    ELSE IF key = "question_index" THEN 0
    ELSE FALSE

\* Lines 30-32 on a fresh session: every key is missing and gets its default.
SessionStateInit == [key \in Keys |-> DefaultValue(key)]

\* ---------------------------------------------------------------- sidebar
\* Line 106: role = custom_role if custom_role else job_role.
Role(form) ==
    IF form.job_role = "Custom..." /\ form.custom_role # ""
    THEN form.custom_role ELSE form.job_role

\* Line 110: all([name, email, experience, api_key, role, resume_file]).
AllFields(form) ==
    /\ form.name # ""
    /\ form.email # ""
    /\ form.experience # ""
    /\ form.api_key # ""
    /\ Role(form) # ""
    /\ form.resume_file # "None"

\* [""] * n
EmptyAnswers(n) == [k \in 1..n |-> <<>>]

\* Variant of GenerateHandler: feedback and scores are not cleared (lines
\* 125-126 left out).
GenerateHandler_KeepResults(s, form, questions) ==
    [s EXCEPT !.questions = questions,
              !.question_index = 0,
              !.user_answers = EmptyAnswers(Len(questions)),
              !.user_details = [Name |-> form.name, Email |-> form.email,
                                Experience |-> form.experience,
                                RoleApplied |-> Role(form)],
              !.ready = TRUE]

\* Lines 115-126: the assignments made once generate_questions has returned.
GenerateHandler(s, form, questions) ==
    [s EXCEPT !.questions = questions,
              !.question_index = 0,
              !.user_answers = EmptyAnswers(Len(questions)),
              !.user_details = [Name |-> form.name, Email |-> form.email,
                                Experience |-> form.experience,
                                RoleApplied |-> Role(form)],
              !.ready = TRUE,
              !.feedback = <<>>,
              !.scores = <<>>]

\* Variant of Accepts: the answer is tested without strip().
Accepts_NoStrip(answer) == answer # <<>>

\* -------------------------------------------------------------- main body
\* Line 147: if answer.strip().
Accepts(answer) == strip(answer) # <<>>

\* Variant of NextHandler: the answer is stored as typed.
NextHandler_NoStrip(s, idx, answer) ==
    [s EXCEPT !.user_answers[idx + 1] = answer,
              !.question_index = @ + 1]

\* Variant of NextHandler: the cursor is not advanced (line 149 left out).
NextHandler_NoAdvance(s, idx, answer) ==
    [s EXCEPT !.user_answers[idx + 1] = strip(answer)]

\* Lines 148-149; idx is the 0-based Python index.
NextHandler(s, idx, answer) ==
    [s EXCEPT !.user_answers[idx + 1] = strip(answer),
              !.question_index = @ + 1]

\* Variant of ResultsGuard: the test of feedback is left out.
ResultsGuard_NoCache(s) ==
    \A k \in 1..Len(s.user_answers) : s.user_answers[k] # <<>>

\* Variant of ResultsGuard: only feedback is tested.
ResultsGuard_FeedbackOnly(s) == s.feedback = <<>>

\* Line 157: not feedback and user_answers.count("") == 0.
ResultsGuard(s) ==
    /\ s.feedback = <<>>
    /\ \A k \in 1..Len(s.user_answers) : s.user_answers[k] # <<>>

\* Variant of StoreResults: the scores are not stored (line 161 left out).
StoreResults_FeedbackOnly(s, ev) ==
    [s EXCEPT !.feedback = ev.feedback_list]

\* Lines 160-161 for the pair ev that evaluate_answers returned.
StoreResults(s, ev) ==
    [s EXCEPT !.feedback = ev.feedback_list, !.scores = ev.score_list]

\* Variant of Evaluate: the results of the pairs before the failing call are
\* stored (as if the lists were appended to in the session).
Evaluate_PartialCommit(s, failAt, responses) ==
    IF failAt \in 1..ZipLen(s.questions, s.user_answers)
    THEN [st |-> StoreResults(s, EvaluatePairs(failAt - 1, responses)), raised |-> TRUE]
    ELSE [st |-> StoreResults(s, evaluate_answers(s.questions, s.user_answers, responses)),
          raised |-> FALSE]

\* Lines 158-161.  failAt = k > 0: the k-th model call of evaluate_answers
\* raises, the exception leaves the script and nothing is assigned; otherwise
\* responses are the model's replies and both lists are stored.
Evaluate(s, failAt, responses) ==
    IF failAt \in 1..ZipLen(s.questions, s.user_answers)
    THEN [st |-> s, raised |-> TRUE]
    ELSE [st |-> StoreResults(s, evaluate_answers(s.questions, s.user_answers, responses)),
          raised |-> FALSE]

\* Variant of RestartHandler: user_details is not among the keys reset.
RestartHandler_KeepDetails(s) ==
    [key \in DOMAIN s |-> IF key = "user_details" THEN s[key] ELSE DefaultValue(key)]

\* Lines 188-189.
RestartHandler(s) == [key \in DOMAIN s |-> DefaultValue(key)]

\* What one run of the main body leaves behind: the session, the buttons it
\* rendered, whether it ended in st.rerun(), and what the evaluator did.
Outcome(s, buttons, rerun, invoked, failedAt) ==
    [st |-> s, shown |-> buttons, rerun |-> rerun,
     evalInvoked |-> invoked, evalFailedAt |-> failedAt]

\* Line 168: sum(st.session_state.scores).
RECURSIVE sum(_)
sum(scores) == IF scores = <<>> THEN 0 ELSE Head(scores) + sum(Tail(scores))

\* Lines 172-173: the average is shown on a scale of 10, avg / 10 is the value
\* handed to st.progress.
MaxScore == 10

\* Variant of Summary: the Restart Interview button sits outside the
\* "if st.session_state.feedback" block.
Summary_RestartAlways(s1, raised, click, buttons, invoked, failAt) ==
    IF raised THEN Outcome(s1, buttons, FALSE, TRUE, failAt)
    ELSE IF click = "restart"
         THEN Outcome(RestartHandler(s1), {}, TRUE, invoked, 0)
    ELSE Outcome(s1, buttons \cup {"restart"}, FALSE, invoked, 0)

\* Lines 163-190: the summary for session s1, or the end of the run when the
\* evaluation raised.
Summary(s1, raised, click, buttons, invoked, failAt) ==
    IF raised THEN Outcome(s1, buttons, FALSE, TRUE, failAt)
    ELSE IF s1.feedback = <<>> THEN Outcome(s1, buttons, FALSE, invoked, 0)
    ELSE IF Len(s1.questions) = 0
         THEN \* line 169: ZeroDivisionError
              Outcome(s1, buttons, FALSE, invoked, 0)
    ELSE IF sum(s1.scores) > MaxScore * Len(s1.questions)
         THEN \* line 173: st.progress raises for a value above 1.0, the run
              \* ends before the Restart Interview button of line 187
              Outcome(s1, buttons, FALSE, invoked, 0)
    ELSE IF click = "restart"
         THEN Outcome(RestartHandler(s1), {}, TRUE, invoked, 0)
    ELSE Outcome(s1, buttons \cup {"restart"}, FALSE, invoked, 0)

\* Lines 157-190 given what lines 157-161 did (e) and whether the guard held.
AfterEvaluation(e, click, buttons, invoked, failAt) ==
    Summary(e.st, e.raised, click, buttons, invoked, failAt)

\* Lines 156-190, the Results tab; buttons are the buttons tab1 rendered.
ResultsTab(s, click, buttons, failAt, responses) ==
    AfterEvaluation(IF ResultsGuard(s) THEN Evaluate(s, failAt, responses)
                    ELSE [st |-> s, raised |-> FALSE],
                    click, buttons, ResultsGuard(s), failAt)

\* Variant of Tabs: the question is shown while idx <= total_qs.
Tabs_OffByOne(s, idx, total_qs, click, answer, failAt, responses) ==
    IF idx <= total_qs /\ click = "next" /\ Accepts(answer)
    THEN Outcome(NextHandler(s, idx, answer), {}, TRUE, FALSE, 0)
    ELSE ResultsTab(s, click, IF idx <= total_qs THEN {"next"} ELSE {},
                    failAt, responses)

\* Lines 136-190 for a session with questions: the Interview tab, then the
\* Results tab unless Next was pressed with an accepted answer.
Tabs(s, idx, total_qs, click, answer, failAt, responses) ==
    IF idx < total_qs /\ click = "next" /\ Accepts(answer)
    THEN Outcome(NextHandler(s, idx, answer), {}, TRUE, FALSE, 0)
    ELSE ResultsTab(s, click, IF idx < total_qs THEN {"next"} ELSE {},
                    failAt, responses)

\* Lines 132-190.  click is the button pressed for this run ("none", "next" or
\* "restart"), answer the content of the text area.
MainBody(s, click, answer, failAt, responses) ==
    IF ~s.ready THEN Outcome(s, {}, FALSE, FALSE, 0)
    ELSE IF Len(s.questions) = 0
         THEN \* line 139: idx / total_qs raises ZeroDivisionError
              Outcome(s, {}, FALSE, FALSE, 0)
    ELSE Tabs(s, s.question_index, Len(s.questions), click, answer, failAt, responses)

\* 1 if the run called evaluate_answers, else 0.
Calls(r) == IF r.evalInvoked THEN 1 ELSE 0

\* The outcome of a run that followed a run ending in st.rerun().
Both(first, again) == [again EXCEPT !.evalInvoked = Calls(first) + Calls(again)]

\* The run that st.rerun() starts at once (lines 150 and 190): the whole script
\* again with no button pressed (the sidebar block does nothing then).
Continue(first, failAt, responses) ==
    IF first.rerun
    THEN Both(first, MainBody(first.st, "none", <<>>, failAt, responses))
    ELSE [first EXCEPT !.evalInvoked = Calls(first)]

\* A script run together with the run it queues, if any.
ScriptRun(s, click, answer, failAt, responses) ==
    Continue(MainBody(s, click, answer, failAt, responses), failAt, responses)

\* Variant of GenerateRaises: the progress of the interview is cleared before
\* the questions are requested.
GenerateRaises_ClearsFirst(s, form) ==
    [s EXCEPT !.question_index = 0,
              !.user_answers = EmptyAnswers(Len(s.questions)),
              !.feedback = <<>>,
              !.scores = <<>>]

\* Variant of GenerateRaises: user_details is stored before the questions are
\* requested.
GenerateRaises_DetailsFirst(s, form) ==
    [s EXCEPT !.user_details = [Name |-> form.name, Email |-> form.email,
                                Experience |-> form.experience,
                                RoleApplied |-> Role(form)]]

\* Lines 111-113 when extract_text_from_pdf or a model call raises: the
\* exception leaves the script before line 115, nothing has been assigned.
GenerateRaises(s, form) == s

\* ------------------------------------------------------------------ inputs
\* A filled-in sidebar (lines 99-107).
FormComplete ==
    [name |-> "Ann", email |-> "ann@example.org", experience |-> "Fresher",
     api_key |-> "key", job_role |-> "Software Engineer", custom_role |-> "",
     resume_file |-> "resume.pdf"]

\* Sidebar contents the user may submit: complete ones (a listed role, a custom
\* role, "Custom..." left without text) and ones with a required field missing.
Forms ==
    {FormComplete,
     [FormComplete EXCEPT !.job_role = "Custom...", !.custom_role = "QA Lead"],
     [FormComplete EXCEPT !.name = ""],
     [FormComplete EXCEPT !.email = ""],
     [FormComplete EXCEPT !.api_key = ""],
     [FormComplete EXCEPT !.resume_file = "None"]}

\* A model response with no text: no question survives cleaning.
GenEmpty ==
    <<>>

\* "1. What is REST?\n- Explain caching.\n\n": two questions.
GenNumbered ==
    <<"1", ".", " ", "W", "h", "a", "t", " ", "i", "s", " ", "R", "E", "S", "T", "?", "\n",
      "-", " ", "E", "x", "p", "l", "a", "i", "n", " ", "c", "a", "c", "h", "i", "n", "g",
      ".", "\n", "\n">>

\* "2) Why?\n<bullet> Tell me about Go.": the first line is too short, one question.
GenBulleted ==
    <<"2", ")", " ", "W", "h", "y", "?", "\n", Bullet, " ", "T", "e", "l", "l", " ", "m",
      "e", " ", "a", "b", "o", "u", "t", " ", "G", "o", ".">>

\* Replies of the model to the role prompt (line 55).
RoleResponses == {GenEmpty, GenNumbered, GenBulleted}

\* Replies of the model to the resume prompt (line 56).
ResumeResponses == {GenEmpty, GenBulleted}

\* "Feedback: Good answer.\nScore: 8/10"
EvalWellFormed ==
    <<"F", "e", "e", "d", "b", "a", "c", "k", ":", " ", "G", "o", "o", "d", " ", "a", "n",
      "s", "w", "e", "r", ".", "\n", "S", "c", "o", "r", "e", ":", " ", "8", "/", "1", "0">>

\* "Great job": neither marker.
EvalNoMarkers ==
    <<"G", "r", "e", "a", "t", " ", "j", "o", "b">>

\* "Feedback:\nScore: 12/10": nothing after the colon, a score above the scale.
EvalOffScale ==
    <<"F", "e", "e", "d", "b", "a", "c", "k", ":", "\n", "S", "c", "o", "r", "e", ":", " ",
      "1", "2", "/", "1", "0">>

\* Replies of the model to an evaluation prompt.
EvalResponses == {EvalWellFormed, EvalNoMarkers, EvalOffScale}

\* " ok\n"
AnswerPadded ==
    <<" ", "o", "k", "\n">>

\* "no"
AnswerPlain ==
    <<"n", "o">>

\* " \t": whitespace only.
AnswerBlank ==
    <<" ", "\t">>

\* Contents of the answer text area when Next is pressed.
AnswerTexts == {<<>>, AnswerBlank, AnswerPadded, AnswerPlain}

\* ------------------------------------------------------------------- state
VARIABLES
    session_state,  \* st.session_state, the seven keys of line 30
    shown,          \* buttons of the main body on the page after the last run
    event,          \* what the last interaction was and how it went
    typed,          \* text area content of the last Next click, else empty
    evalInvoked,    \* the last interaction reached evaluate_answers
    evalFailedAt,   \* the pair at which that call raised, 0 if it did not
    evalCalls,      \* calls of evaluate_answers since the last restart
    call,           \* a function of the script applied on its own: its arguments
    result          \* and what it returned

vars == <<session_state, shown, event, typed, evalInvoked, evalFailedAt, evalCalls,
          call, result>>

\* No function is applied on its own in a session.
NoCall == [fn |-> "none"]

\* The function has not returned yet.
NotReturned == [returned |-> FALSE]

\* The function returned value.
Returned(value) == [returned |-> TRUE, value |-> value]

\* The page after the first run of a new session: nothing is ready, the main
\* body renders nothing.
NewSession ==
    /\ session_state = SessionStateInit
    /\ shown = {}
    /\ event = "start"
    /\ typed = <<>>
    /\ evalInvoked = FALSE
    /\ evalFailedAt = 0
    /\ evalCalls = 0

Init ==
    /\ NewSession
    /\ call = NoCall
    /\ result = NotReturned

\* The effect of an interaction whose runs ended with outcome r.
Commit(r, ev, answer) ==
    /\ session_state' = r.st
    /\ shown' = r.shown
    /\ event' = ev
    /\ typed' = answer
    /\ evalInvoked' = (r.evalInvoked > 0)
    /\ evalFailedAt' = r.evalFailedAt
    /\ evalCalls' = IF ev = "restart" THEN 0 ELSE evalCalls + r.evalInvoked
    /\ evalCalls' <= MaxEvalCalls
    /\ UNCHANGED <<call, result>>

\* What the model does during one interaction: whether its runs reach
\* evaluate_answers does not depend on the model's replies, so the replies (and
\* the call that raises, if one does) are drawn only for an interaction whose
\* outcome quiet, computed with arbitrary replies, reached it.
Draws(quiet, n) ==
    IF quiet.evalInvoked = 0 THEN {[failAt |-> 0, responses |-> [k \in 1..n |-> <<>>]]}
    ELSE [failAt : 0..n, responses : [1..n -> EvalResponses]]

\* One interaction on session s.
Run(s, click, answer, ev) ==
    \E d \in Draws(ScriptRun(s, click, answer, 0, [k \in 1..Len(s.questions) |-> <<>>]),
                   Len(s.questions)) :
        Commit(ScriptRun(s, click, answer, d.failAt, d.responses), ev, answer)

\* A run with no button pressed: the run that any other widget interaction
\* (typing in a field, the download button) causes.
Render == Run(session_state, "none", <<>>, "render")

\* Generate Questions pressed with a required field missing (line 129); the
\* script goes on to the main body.
GenerateMissingField ==
    \E form \in Forms :
        /\ ~AllFields(form)
        /\ Run(session_state, "none", <<>>, "generate_missing_field")

\* The page after a run that raised in the sidebar block: the main body was not
\* reached.
Aborted(s, ev) ==
    Commit(Outcome(s, {}, FALSE, 0, 0), ev, <<>>)

\* Generate Questions pressed, extract_text_from_pdf raises (line 112).
GenerateExtractFails ==
    \E form \in Forms :
        /\ AllFields(form)
        /\ Aborted(GenerateRaises(session_state, form), "generate_extract_failed")

\* Generate Questions pressed, one of the two model calls raises (lines 55-56).
GenerateModelFails ==
    \E form \in Forms :
        /\ AllFields(form)
        /\ Aborted(GenerateRaises(session_state, form), "generate_model_failed")

\* Generate Questions pressed and both model calls return (lines 113-127).
GenerateSucceeds ==
    \E form \in Forms, role_response \in RoleResponses,
       resume_response \in ResumeResponses :
        /\ AllFields(form)
        /\ Run(GenerateHandler(session_state, form,
                               generate_questions(role_response, resume_response)),
               "none", <<>>, "generate_ok")

\* Next pressed with an answer whose trimmed text is not empty (lines 146-150).
NextAccepted ==
    /\ "next" \in shown
    /\ \E answer \in AnswerTexts :
        /\ strip(answer) # <<>>
        /\ Run(session_state, "next", answer, "next_accepted")

\* Next pressed with an answer whose trimmed text is empty (lines 151-152).
NextRejected ==
    /\ "next" \in shown
    /\ \E answer \in AnswerTexts :
        /\ strip(answer) = <<>>
        /\ Run(session_state, "next", answer, "next_rejected")

\* Restart Interview pressed (lines 187-190).
RestartInterview ==
    /\ "restart" \in shown
    /\ Run(session_state, "restart", <<>>, "restart")

Next ==
    \/ Render
    \/ GenerateMissingField
    \/ GenerateExtractFails
    \/ GenerateModelFails
    \/ GenerateSucceeds
    \/ NextAccepted
    \/ NextRejected
    \/ RestartInterview

Spec == Init /\ [][Next]_vars

\* ------------------------------------------------------ one interview
\* An interview that is started once and not interrupted: questions are
\* generated in a new session and at least one survives cleaning, every model
\* call of the evaluator returns, and neither Generate Questions nor Restart
\* Interview is pressed afterwards.  The candidate may still cause plain
\* reruns and submit blank answers, but keeps submitting answers: an accepted
\* submission that stays possible is eventually made (weak fairness).
StartInterview ==
    /\ ~session_state.ready
    /\ GenerateSucceeds
    /\ Len(session_state'.questions) >= 1

\* One interaction on session s in which no model call raises.
RunReturning(s, click, answer, ev) ==
    \E quiet \in {ScriptRun(s, click, answer, 0, [k \in 1..Len(s.questions) |-> <<>>])} :
        \E d \in Draws(quiet, Len(s.questions)) :
            /\ d.failAt = 0
            /\ \E r \in {ScriptRun(s, click, answer, 0, d.responses)} :
                  Commit(r, ev, answer)

\* NextAccepted when, if the rerun evaluates, every model call returns.
SubmitAnswer ==
    /\ "next" \in shown
    /\ \E answer \in AnswerTexts :
        /\ strip(answer) # <<>>
        /\ RunReturning(session_state, "next", answer, "next_accepted")

InterviewNext ==
    \/ StartInterview
    \/ SubmitAnswer
    \/ NextRejected
    \/ Render

SpecInterview == Init /\ [][InterviewNext]_vars /\ WF_vars(SubmitAnswer)

\* ------------------------------------------------ the functions on their own
\* clean_questions, generate_questions and evaluate_answers are pure functions
\* of their arguments (the model's replies included); SpecPure applies each of
\* them once to arguments drawn from the sets below.

\* Longest list of raw lines handed to clean_questions.
MaxRawLines == 4

\* Most lines in one reply of the model to a question prompt.
MaxResponseLines == 7

\* Most (question, answer) pairs handed to evaluate_answers.
MaxPairs == 3

\* Sequences over S of length at most n.
SeqsUpTo(S, n) == UNION {[1..k -> S] : k \in 0..n}

\* "1. What is REST?"
LineNumbered ==
    <<"1", ".", " ", "W", "h", "a", "t", " ", "i", "s", " ", "R", "E", "S", "T", "?">>

\* "- Explain caching."
LineDashed ==
    <<"-", " ", "E", "x", "p", "l", "a", "i", "n", " ", "c", "a", "c", "h", "i", "n",
      "g", ".">>

\* "  12) <bullet> Name it.  ": whitespace around, a run of several prefix characters.
LinePadded ==
    <<" ", " ", "1", "2", ")", " ", Bullet, " ", "N", "a", "m", "e", " ", "i", "t", ".",
      " ", " ">>

\* "- Redis": five characters are left after the prefix.
LineFiveLeft ==
    <<"-", " ", "R", "e", "d", "i", "s">>

\* "3. Docker": six characters are left after the prefix.
LineSixLeft ==
    <<"3", ".", " ", "D", "o", "c", "k", "e", "r">>

\* Lines that resp.text.split("\n") can hold (line 57), the empty line included.
RawLines == {LineNumbered, LineDashed, <<>>, LinePadded, LineFiveLeft, LineSixLeft}

\* The digit character of k, for k in 0..9.
DigitChar(k) == CHOOSE c \in Digits : DigitVal(c) = k

\* "k. Role Qk": the k-th line of a reply to the role prompt.
RoleLine(k) ==
    <<DigitChar(k), ".", " ", "R", "o", "l", "e", " ", "Q", DigitChar(k)>>

\* "- CV item k": the k-th line of a reply to the resume prompt.
ResumeLine(k) ==
    <<"-", " ", "C", "V", " ", "i", "t", "e", "m", " ", DigitChar(k)>>

\* The text whose pieces are lines, sep between them.
RECURSIVE Join(_, _)
Join(lines, sep) ==
    IF lines = <<>> THEN <<>>
    ELSE IF Len(lines) = 1 THEN Head(lines)
    ELSE Head(lines) \o sep \o Join(Tail(lines), sep)

\* What separates the lines of a reply: a newline, or a blank line.
Separators == {<<"\n">>, <<"\n", "\n">>}

\* A reply to the role prompt with n questions.
RoleText(n, sep) == Join([k \in 1..n |-> RoleLine(k)], sep)

\* A reply to the resume prompt with n questions.
ResumeText(n, sep) == Join([k \in 1..n |-> ResumeLine(k)], sep)

\* "Feedback: Score: 99 is too high.\nScore: 7/10": the expected format, the
\* feedback text itself mentions a score.
EvalScoreInFeedback ==
    <<"F", "e", "e", "d", "b", "a", "c", "k", ":", " ", "S", "c", "o", "r", "e", ":",
      " ", "9", "9", " ", "i", "s", " ", "t", "o", "o", " ", "h", "i", "g", "h", ".",
      "\n", "S", "c", "o", "r", "e", ":", " ", "7", "/", "1", "0">>

\* "Overall Feedback: fine\nScore: 3/10": no line begins with "Feedback:".
EvalMidLine ==
    <<"O", "v", "e", "r", "a", "l", "l", " ", "F", "e", "e", "d", "b", "a", "c", "k",
      ":", " ", "f", "i", "n", "e", "\n", "S", "c", "o", "r", "e", ":", " ", "3", "/",
      "1", "0">>

\* "Feedback:   Nice work.  \nScore:10/10": whitespace around the feedback.
EvalPadded ==
    <<"F", "e", "e", "d", "b", "a", "c", "k", ":", " ", " ", " ", "N", "i", "c", "e",
      " ", "w", "o", "r", "k", ".", " ", " ", "\n", "S", "c", "o", "r", "e", ":", "1",
      "0", "/", "1", "0">>

\* Replies of the model to an evaluation prompt (line 75).
PureEvalResponses == EvalResponses \cup {EvalScoreInFeedback, EvalMidLine, EvalPadded}

\* clean_questions applied to a list of raw lines.
CleanCalls ==
    {[fn |-> "clean_questions", raw_qs |-> raw_qs] :
        raw_qs \in SeqsUpTo(RawLines, MaxRawLines)}

\* generate_questions with the two replies of the model.
GenerateCalls ==
    {[fn |-> "generate_questions", role_response |-> RoleText(n, rs),
      resume_response |-> ResumeText(m, ms)] :
        n \in 0..MaxResponseLines, m \in 0..MaxResponseLines,
        rs \in Separators, ms \in Separators}

\* evaluate_answers with n questions, their answers and the model's replies.
EvaluateCallsOf(n) ==
    {[fn |-> "evaluate_answers", questions |-> [k \in 1..n |-> RoleLine(k)],
      answers |-> [k \in 1..n |-> AnswerPlain], responses |-> responses] :
        responses \in [1..n -> PureEvalResponses]}

EvaluateCalls == UNION {EvaluateCallsOf(n) : n \in 0..MaxPairs}

PureInit ==
    /\ NewSession
    /\ result = NotReturned
    /\ \/ call \in CleanCalls
       \/ call \in GenerateCalls
       \/ call \in EvaluateCalls

\* The session is not touched while a function is applied on its own.
SessionUntouched ==
    UNCHANGED <<session_state, shown, event, typed, evalInvoked, evalFailedAt,
                evalCalls, call>>

\* Lines 39-46.
CallCleanQuestions ==
    /\ call.fn = "clean_questions"
    /\ ~result.returned
    /\ result' = Returned(clean_questions(call.raw_qs))
    /\ SessionUntouched

\* Lines 48-60.
CallGenerateQuestions ==
    /\ call.fn = "generate_questions"
    /\ ~result.returned
    /\ result' = Returned(generate_questions(call.role_response, call.resume_response))
    /\ SessionUntouched

\* Lines 62-84, every model call returning.
CallEvaluateAnswers ==
    /\ call.fn = "evaluate_answers"
    /\ ~result.returned
    /\ result' = Returned(evaluate_answers(call.questions, call.answers, call.responses))
    /\ SessionUntouched

PureNext ==
    \/ CallCleanQuestions
    \/ CallGenerateQuestions
    \/ CallEvaluateAnswers

SpecPure == PureInit /\ [][PureNext]_vars

\* ------------------------------------------------------------------ claims
\* The session is in the all-answered state: ready, the cursor at the end and
\* no empty answer.
AllAnswered(s) ==
    /\ s.ready
    /\ s.question_index = Len(s.questions)
    /\ \A k \in 1..Len(s.user_answers) : s.user_answers[k] # <<>>

\* The interactions in which Generate Questions was pressed and did not succeed.
FailedGenerations ==
    {"generate_missing_field", "generate_extract_failed", "generate_model_failed"}

\* C1: in every reachable session state answers is as long as questions, the
\* cursor does not exceed the number of questions, and feedback and scores are
\* both empty or both as long as questions.
C1_SessionShape ==
    /\ Len(session_state.user_answers) = Len(session_state.questions)
    /\ session_state.question_index <= Len(session_state.questions)
    /\ \/ session_state.feedback = <<>> /\ session_state.scores = <<>>
       \/ /\ Len(session_state.feedback) = Len(session_state.questions)
          /\ Len(session_state.scores) = Len(session_state.questions)

\* C1 witness: a fully scored three-question session reached after an earlier
\* call of the evaluator (a failed one, or one for an earlier question set).
C1_Witness ==
    /\ Len(session_state.feedback) = 3
    /\ Len(session_state.scores) = 3
    /\ evalCalls >= 2

\* C2 as stated: between two resets the evaluator is invoked at most once.
C2_AtMostOncePerReset == evalCalls <= 1

\* C2 amended: while feedback is stored (non-empty) no interaction invokes the
\* evaluator, and every interaction other than a restart or a successful
\* Generate Questions leaves feedback and scores as stored.
C2_StoredFeedbackReused ==
    [][session_state.feedback # <<>> =>
        /\ evalCalls' <= evalCalls
        /\ event' \notin {"restart", "generate_ok"} =>
            /\ session_state'.feedback = session_state.feedback
            /\ session_state'.scores = session_state.scores]_vars

\* C2 witness: the results view rendered again on a scored session, the
\* evaluator having been called once and not by this render.
C2_Witness ==
    /\ event = "render"
    /\ session_state.feedback # <<>>
    /\ ~evalInvoked
    /\ evalCalls = 1

\* C3: after Restart Interview the session is the empty state of process start:
\* no questions, answers, feedback, scores or candidate details, cursor cleared
\* and ready false.
C3_ResetRestoresEmpty ==
    event = "restart" =>
        /\ session_state.questions = <<>>
        /\ session_state.user_answers = <<>>
        /\ session_state.feedback = <<>>
        /\ session_state.scores = <<>>
        /\ session_state.user_details = EmptyDict
        /\ session_state.question_index = 0
        /\ session_state.ready = FALSE
        /\ DOMAIN session_state = Keys
        /\ session_state = SessionStateInit

\* C3 witness: the state right after a restart.
C3_Witness == event = "restart" /\ evalCalls = 0 /\ shown = {}

\* C4 as stated: the reset step can be taken in every session state.
C4_ResetAlwaysEnabled == ENABLED RestartInterview

\* C4 amended: the reset step can be taken only when feedback is stored (the
\* Scored state), and there whenever the last run rendered the results view to
\* its end, that is unless it ended in the sidebar block with an exception or
\* the average score is above 10 (st.progress of line 173 raises then).
C4_ResetOnlyWhenScored ==
    /\ (ENABLED RestartInterview) => session_state.feedback # <<>>
    /\ (session_state.feedback # <<>>
          /\ event \notin {"generate_extract_failed", "generate_model_failed"}
          /\ sum(session_state.scores) <= MaxScore * Len(session_state.questions))
        => ENABLED RestartInterview

\* C4 witness: a scored session whose page offers Restart Interview.
C4_Witness ==
    /\ ENABLED RestartInterview
    /\ session_state.feedback # <<>>
    /\ event = "render"

\* C5: a submission whose trimmed text is empty changes no key of the session.
C5_BlankSubmissionRejected ==
    [][event' = "next_rejected" => session_state' = session_state]_vars

\* C5 witness: a whitespace-only answer rejected in the middle of an interview.
C5_Witness ==
    /\ event = "next_rejected"
    /\ typed = AnswerBlank
    /\ session_state.question_index = 1
    /\ session_state.user_answers[2] = <<>>

\* The frame of an accepted submission that C6 states and the code keeps: the
\* trimmed answer is stored at the cursor, the cursor grows by one, questions,
\* the other answers, user_details and ready stay.
AcceptedFrame ==
    /\ session_state.question_index < Len(session_state.questions)
    /\ session_state'.user_answers =
         [session_state.user_answers EXCEPT ![session_state.question_index + 1] = strip(typed')]
    /\ session_state'.question_index = session_state.question_index + 1
    /\ session_state'.questions = session_state.questions
    /\ session_state'.user_details = session_state.user_details
    /\ session_state'.ready = session_state.ready

\* C6 as stated: an accepted submission also leaves feedback and scores as they
\* were.
C6_AcceptedLeavesResults ==
    [][event' = "next_accepted" =>
        /\ AcceptedFrame
        /\ session_state'.feedback = session_state.feedback
        /\ session_state'.scores = session_state.scores]_vars

\* C6 amended: feedback and scores stay when a question is left; when the
\* submission answers the last question the run started by st.rerun() reaches
\* the results tab, which calls the evaluator and, unless a model call raises,
\* stores feedback and scores for all questions.
C6_AcceptedSubmission ==
    [][event' = "next_accepted" =>
        /\ AcceptedFrame
        /\ session_state.question_index + 1 < Len(session_state.questions) =>
            /\ ~evalInvoked'
            /\ session_state'.feedback = session_state.feedback
            /\ session_state'.scores = session_state.scores
        /\ session_state.question_index + 1 = Len(session_state.questions) =>
            /\ evalInvoked'
            /\ \/ /\ evalFailedAt' > 0
                  /\ session_state'.feedback = session_state.feedback
                  /\ session_state'.scores = session_state.scores
               \/ /\ evalFailedAt' = 0
                  /\ Len(session_state'.feedback) = Len(session_state.questions)
                  /\ Len(session_state'.scores) = Len(session_state.questions)]_vars

\* C6 witness: the padded answer " ok\n" accepted for the second of three
\* questions and stored trimmed.
C6_Witness ==
    /\ event = "next_accepted"
    /\ typed = AnswerPadded
    /\ Len(session_state.questions) = 3
    /\ session_state.question_index = 2
    /\ session_state.user_answers[2] = <<"o", "k">>

\* C7: an evaluation in which a model call raises stores nothing: feedback and
\* scores stay empty, the session is otherwise as the evaluator found it (as it
\* was, or as the accepted submission of this interaction left it) and is
\* all-answered and unscored.
C7_FailedEvaluationStoresNothing ==
    [][evalFailedAt' > 0 =>
        /\ evalInvoked'
        /\ session_state'.feedback = <<>>
        /\ session_state'.scores = <<>>
        /\ AllAnswered(session_state')
        /\ session_state' =
             IF event' = "next_accepted"
             THEN [session_state EXCEPT
                     !.user_answers[session_state.question_index + 1] = strip(typed'),
                     !.question_index = @ + 1]
             ELSE session_state]_vars

\* C7 witness: the call for the third pair raised after two calls had returned.
C7_Witness ==
    /\ evalFailedAt = 3
    /\ evalInvoked
    /\ Len(session_state.questions) = 3

\* C8 as stated: a Generate Questions that does not succeed leaves the whole
\* session unchanged.
C8_FailedGenerateChangesNothing ==
    [][event' \in FailedGenerations => session_state' = session_state]_vars

\* C8 amended: it leaves questions, answers, cursor, user_details and ready
\* unchanged, and feedback and scores too unless a field was missing and the
\* run went on to the results tab of an all-answered, unscored session, where
\* the evaluator was called and returned.
C8_FailedGenerate ==
    [][event' \in FailedGenerations =>
        /\ \A key \in Keys \ {"feedback", "scores"} :
              session_state'[key] = session_state[key]
        /\ (~evalInvoked' \/ evalFailedAt' > 0) => session_state' = session_state
        /\ evalInvoked' =>
            /\ event' = "generate_missing_field"
            /\ session_state.feedback = <<>>
            /\ AllAnswered(session_state)]_vars

\* C8 witness: a model call of the generation raised on a scored session.
C8_Witness ==
    /\ event = "generate_model_failed"
    /\ session_state.feedback # <<>>
    /\ session_state.question_index = 2

\* C9 as stated: once questions are generated, no interaction other than a
\* restart changes questions or user_details.
C9_FixedUntilReset ==
    [][(session_state.questions # <<>> /\ event' # "restart") =>
        /\ session_state'.questions = session_state.questions
        /\ session_state'.user_details = session_state.user_details]_vars

\* C9 amended: no interaction other than a restart or a successful Generate
\* Questions changes them.
C9_FixedUntilResetOrGenerate ==
    [][(session_state.ready /\ event' \notin {"restart", "generate_ok"}) =>
        /\ session_state'.questions = session_state.questions
        /\ session_state'.user_details = session_state.user_details]_vars

\* C9 witness: a generation failed on a session whose three questions are
\* partly answered.
C9_Witness ==
    /\ event = "generate_extract_failed"
    /\ Len(session_state.questions) = 3
    /\ session_state.question_index = 1

\* The cursor does not go back and the answers below it stay.
ForwardOnly ==
    /\ session_state'.question_index >= session_state.question_index
    /\ \A k \in 1..session_state.question_index :
          /\ k <= Len(session_state'.user_answers)
          /\ session_state'.user_answers[k] = session_state.user_answers[k]

\* C10 as stated: every interaction that is not a restart is forward-only.
C10_ForwardOnlyButReset ==
    [][event' # "restart" => ForwardOnly]_vars

\* C10 amended: every interaction that is neither a restart nor a successful
\* Generate Questions is forward-only, and Next is pressed only below the end.
C10_ForwardOnlyButResetOrGenerate ==
    [][/\ event' \notin {"restart", "generate_ok"} => ForwardOnly
       /\ event' \in {"next_accepted", "next_rejected"} =>
            session_state.question_index < Len(session_state.questions)]_vars

\* C10 witness: all three questions answered, no Next button left.
C10_Witness ==
    /\ event = "next_accepted"
    /\ session_state.question_index = 3
    /\ Len(session_state.questions) = 3
    /\ "next" \notin shown

\* C11: every score stored in the session is an integer between 0 and 10.
C11_ScoresInRange ==
    \A k \in 1..Len(session_state.scores) :
        session_state.scores[k] \in 0..MaxScore

\* "Role Qk": the question a cleaned RoleLine(k) is.
RoleQuestion(k) == <<"R", "o", "l", "e", " ", "Q", DigitChar(k)>>

\* "CV item k": the question a cleaned ResumeLine(k) is.
ResumeQuestion(k) == <<"C", "V", " ", "i", "t", "e", "m", " ", DigitChar(k)>>

\* The first ten of n role questions followed by m resume questions.
FirstTen(n, m) ==
    [k \in 1..Min(n + m, 10) |-> IF k <= n THEN RoleQuestion(k) ELSE ResumeQuestion(k - n)]

\* The first ten entries of all_qs.
FirstTenOf(all_qs) == SubSeq(all_qs, 1, Min(Len(all_qs), 10))

\* C12: generate_questions returns at most 10 questions, the first 10 entries
\* of the cleaned role questions followed by the cleaned resume questions:
\* role questions before resume questions, each in the order of its reply, and
\* a shorter list when fewer than 10 are produced.
C12_FirstTenRoleFirst ==
    (call.fn = "generate_questions" /\ result.returned) =>
        /\ Len(result.value) <= 10
        /\ result.value = FirstTenOf(clean_questions(split(call.role_response))
                                       \o clean_questions(split(call.resume_response)))
        /\ \A n \in 0..MaxResponseLines, m \in 0..MaxResponseLines :
              (\E rs \in Separators, ms \in Separators :
                  /\ call.role_response = RoleText(n, rs)
                  /\ call.resume_response = ResumeText(m, ms))
              => result.value = FirstTen(n, m)

\* C12 witness: seven role questions and seven resume questions, of which the
\* seven role questions and the first three resume questions are returned.
C12_Witness ==
    /\ call.fn = "generate_questions"
    /\ result.returned
    /\ call.role_response = RoleText(7, <<"\n">>)
    /\ call.resume_response = ResumeText(7, <<"\n", "\n">>)
    /\ Len(result.value) = 10
    /\ result.value[7] = RoleQuestion(7)
    /\ result.value[10] = ResumeQuestion(3)

\* What a raw line leaves once its leading run of prefix characters (dash,
\* bullet, digit, dot, closing parenthesis, whitespace) and its trailing
\* whitespace are removed, stated by where that remainder begins and ends.
Remainder(line) ==
    SubSeq(line,
           CHOOSE i \in 1..Len(line) + 1 :
               /\ \A k \in 1..i - 1 : line[k] \in PrefixChars
               /\ i <= Len(line) => line[i] \notin PrefixChars,
           CHOOSE j \in 0..Len(line) :
               /\ \A k \in j + 1..Len(line) : line[k] \in Whitespace
               /\ j >= 1 => line[j] \notin Whitespace)

\* Positions of the raw lines whose remainder is longer than 5 characters.
KeptLines(raw_qs) == {i \in 1..Len(raw_qs) : Len(Remainder(raw_qs[i])) > 5}

\* C13: the output of clean_questions preserves the order of its input; every
\* output line is trimmed, longer than 5 characters and does not start with a
\* dash, bullet, digit, dot, closing parenthesis or whitespace; the lines whose
\* remainder has length at most 5 are dropped; the lines "1. What is REST?",
\* "- Explain caching.", "", "" give "What is REST?", "Explain caching.".
C13_CleanedInOrder ==
    (call.fn = "clean_questions" /\ result.returned) =>
        /\ \A k \in 1..Len(result.value) :
              /\ Len(result.value[k]) > 5
              /\ result.value[k][1] \notin PrefixChars
              /\ result.value[k][Len(result.value[k])] \notin Whitespace
        /\ Len(result.value) = Cardinality(KeptLines(call.raw_qs))
        /\ \A i \in KeptLines(call.raw_qs) :
              result.value[Cardinality({j \in KeptLines(call.raw_qs) : j <= i})]
                  = Remainder(call.raw_qs[i])
        /\ call.raw_qs = <<LineNumbered, LineDashed, <<>>, <<>>>> =>
              result.value = <<Drop(LineNumbered, 4), Drop(LineDashed, 3)>>

\* C13 witness: of four lines the first (five characters left) and the third
\* (empty) are dropped, the second and fourth are returned in their order.
C13_Witness ==
    /\ call.fn = "clean_questions"
    /\ result.returned
    /\ call.raw_qs = <<LineFiveLeft, LinePadded, <<>>, LineSixLeft>>
    /\ Len(result.value) = 2
    /\ result.value[2] = <<"D", "o", "c", "k", "e", "r">>

\* The decimal numeral of n, for n in 0..10.
Numeral(n) == IF n = 10 THEN <<"1", "0">> ELSE <<DigitChar(n)>>

\* "Score: N/10" or "Score:N/10" for the number n.
ScoreLines(n) ==
    {ScoreMarker \o sp \o Numeral(n) \o <<"/", "1", "0">> : sp \in {<<>>, <<" ">>}}

\* The response follows the format the prompt asks for (lines 71-72): a first
\* line that begins with "Feedback:", then the line "Score: N/10" with N
\* between 0 and 10.
FollowsFormat(response) ==
    /\ MatchesAt(response, 1, FeedbackMarker)
    /\ \E nl \in 1..Len(response) :
          /\ response[nl] = "\n"
          /\ \A k \in 1..nl - 1 : response[k] # "\n"
          /\ \E n \in 0..10 : Drop(response, nl + 1) \in ScoreLines(n)

\* The parts of C14 other than the range of a well-formed response's score:
\* both lists are as long as questions, and a response with neither marker
\* gives the placeholder and 0.
LengthsAndPlaceholders ==
    /\ Len(result.value.feedback_list) = Len(call.questions)
    /\ Len(result.value.score_list) = Len(call.questions)
    /\ \A k \in 1..Len(call.questions) :
          (Occurrences(call.responses[k], FeedbackMarker) = {}
             /\ Occurrences(call.responses[k], ScoreMarker) = {})
          => /\ result.value.feedback_list[k] = NoFeedback
             /\ result.value.score_list[k] = 0

\* C14: evaluate_answers returns a feedback list and a score list, both as long
\* as questions, entry i coming from pair i only: the placeholder and 0 when
\* the response to pair i has neither marker, and a score between 0 and 10
\* when the response follows the "Feedback: ... / Score: N/10" format.
C14_EvaluateByPair ==
    (call.fn = "evaluate_answers" /\ result.returned) =>
        /\ LengthsAndPlaceholders
        /\ \A k \in 1..Len(call.questions) :
              FollowsFormat(call.responses[k]) => result.value.score_list[k] \in 0..10

\* The lines of a response that begin with "Feedback:".
FeedbackLines(lines) ==
    {i \in 1..Len(lines) : MatchesAt(lines[i], 1, FeedbackMarker)}

\* The feedback C15 describes: the trimmed text after the colon on the first
\* line that begins with "Feedback:", the placeholder when there is no such line.
FirstFeedbackLine(lines) ==
    IF FeedbackLines(lines) = {} THEN NoFeedback
    ELSE strip(Drop(lines[Least(FeedbackLines(lines))], Len(FeedbackMarker) + 1))

\* C15: the feedback extracted from a response is the trimmed text that follows
\* the colon on the first line beginning with "Feedback:" (empty when nothing
\* follows on that line), and the placeholder exactly when no line begins with
\* "Feedback:".
C15_FeedbackOfFirstLine ==
    (call.fn = "evaluate_answers" /\ result.returned) =>
        \A k \in 1..Len(call.questions) :
            result.value.feedback_list[k] = FirstFeedbackLine(split(call.responses[k]))

\* C16: the evaluator is invoked only on a session that is ready, has no
\* feedback and has every answer non-empty, that is with the cursor at
\* len(questions), never while a question is unanswered; and feedback is
\* non-empty only in states where all answers are non-empty.  An interaction
\* invokes the evaluator exactly when it raises evalCalls; the evaluation
\* changes feedback and scores only, so the feedback it found is that of the
\* state before and the answers and cursor it found are those of the state after.
C16_EvaluatorOnlyWhenAllAnswered ==
    /\ [][evalCalls' > evalCalls =>
            /\ session_state.feedback = <<>>
            /\ AllAnswered(session_state')]_vars
    /\ [](evalInvoked => AllAnswered(session_state))
    /\ [](session_state.feedback # <<>> => AllAnswered(session_state))

\* C16 witness: the accepted answer to the last of two questions, whose rerun
\* invoked the evaluator and stored feedback.
C16_Witness ==
    /\ event = "next_accepted"
    /\ evalInvoked
    /\ evalFailedAt = 0
    /\ Len(session_state.questions) = 2
    /\ Len(session_state.feedback) = 2

\* The user_details a complete form gives.
DetailsOf(form) ==
    [Name |-> form.name, Email |-> form.email, Experience |-> form.experience,
     RoleApplied |-> Role(form)]

\* C17: after a successful Generate Questions, whatever the state before,
\* questions is the generated list, the cursor is 0, answers is len(questions)
\* empty strings, feedback and scores are empty, user_details holds the
\* submitted fields and ready is true.
C17_GeneratePopulates ==
    event = "generate_ok" =>
        /\ \E role_response \in RoleResponses, resume_response \in ResumeResponses :
              session_state.questions = generate_questions(role_response, resume_response)
        /\ session_state.question_index = 0
        /\ Len(session_state.user_answers) = Len(session_state.questions)
        /\ \A k \in 1..Len(session_state.user_answers) : session_state.user_answers[k] = <<>>
        /\ session_state.feedback = <<>>
        /\ session_state.scores = <<>>
        /\ \E form \in Forms : AllFields(form) /\ session_state.user_details = DetailsOf(form)
        /\ session_state.ready = TRUE

\* C17 witness: questions generated again in a session whose earlier question
\* set had been evaluated.
C17_Witness ==
    /\ event = "generate_ok"
    /\ evalCalls >= 1
    /\ Len(session_state.questions) = 3
    /\ session_state.user_details.RoleApplied = "QA Lead"

\* C19: in every state with ready true the answers before the cursor are
\* non-empty and those from the cursor on are empty, so that no answer is the
\* empty string exactly when the cursor is at len(questions).
C19_AnsweredBelowCursor ==
    session_state.ready =>
        /\ \A i \in 1..Len(session_state.user_answers) :
              (session_state.user_answers[i] # <<>>) <=> (i <= session_state.question_index)
        /\ (\A i \in 1..Len(session_state.user_answers) : session_state.user_answers[i] # <<>>)
             <=> (session_state.question_index = Len(session_state.questions))

\* C19 witness: one of three questions answered.
C19_Witness ==
    /\ session_state.ready
    /\ event = "next_accepted"
    /\ session_state.question_index = 1
    /\ Len(session_state.questions) = 3
    /\ session_state.user_answers[1] # <<>>
    /\ session_state.user_answers[2] = <<>>

\* C20: whenever ready is true the session has at least one question.
C20_ReadyHasQuestions ==
    session_state.ready => Len(session_state.questions) >= 1

\* C18: from the start of the collection (cursor 0, N >= 1 questions), when
\* the candidate keeps submitting non-empty answers, the model calls succeed
\* and nothing is reset or regenerated, the session eventually is scored with
\* feedback and scores of length N; the cursor only moves by accepted
\* submissions, each of which advances it by exactly one (so it takes the
\* values 0, 1, ..., N in order, after exactly N accepted submissions), and
\* the questions stay the same on the way.
C18_InterviewCompletes ==
    /\ (session_state.ready /\ session_state.question_index = 0
          /\ Len(session_state.questions) >= 1)
         ~> (/\ session_state.question_index = Len(session_state.questions)
             /\ Len(session_state.feedback) = Len(session_state.questions)
             /\ Len(session_state.scores) = Len(session_state.questions)
             /\ session_state.feedback # <<>>)
    /\ [][session_state.ready =>
            /\ session_state'.questions = session_state.questions
            /\ (event' = "next_accepted") <=>
                 (session_state'.question_index = session_state.question_index + 1)
            /\ (event' # "next_accepted") =>
                 (session_state'.question_index = session_state.question_index)]_vars

\* C18 witness: a three-question interview scored by the rerun of its third
\* accepted submission.
C18_Witness ==
    /\ event = "next_accepted"
    /\ session_state.question_index = 3
    /\ Len(session_state.feedback) = 3
    /\ Len(session_state.scores) = 3
    /\ evalCalls = 1
====
